---- MODULE Spec2Model ----
(***************************************************************************)
(* The signal pipeline of the quality-control dashboard:                   *)
(*   - the defect-detection upload widget, in its two source versions      *)
(*     (frontend/src/components/DefectDisplay.js, and the version with a   *)
(*     loading flag and error handling, unnamed/part_004);                 *)
(*   - the maintenance panel MaintenanceStats, with the alert threshold    *)
(*     (unnamed/part_002) and without it (unnamed/part_003);               *)
(*   - the alert comparison of the panel as a pure function.               *)
(* App (unnamed/part_005) mounts one route at a time, so each component is *)
(* explored by a specification of its own: SpecDefect, SpecPanel and       *)
(* SpecEvaluate.                                                           *)
(***************************************************************************)
EXTENDS Integers, Sequences, FiniteSets, TLC

VARIABLES
    \* ---- defect-detection widget (one mounted instance)
    variant,        \* which source version is mounted: "basic" | "guarded"
    file,           \* useState file: NoFile | EmptyFile | "image"
    result,         \* useState result: NoResult or the text shown
    isLoading,      \* useState isLoading (guarded version only; FALSE otherwise)
    calls,          \* the handleSubmit activations that are suspended at an await,
                    \* in submission order
    windowAlert,    \* the last message passed to window.alert by the widget
    \* ---- maintenance panel (one mounted instance)
    panelVariant,   \* "threshold" (part_002) | "plain" (part_003)
    equipmentId,    \* the equipmentId prop
    maintenanceData,\* useState maintenanceData: Null or the response
    loading,        \* useState loading
    error,          \* useState error: NoError or the message
    alertThreshold, \* useState alertThreshold (part_002)
    effectPending,  \* the useEffect of the last commit has not run yet
    view,           \* what the last render returned
    panelAlert,     \* the last message passed to window.alert by the panel
    typedFor,       \* history: per equipment id, the value last typed into the
                    \* threshold input while that id was shown (default until then)
    fetches,        \* history: per equipment id, how many fetches for it have
                    \* completed (counted up to MaxFetches)
    \* ---- the alert comparison applied to drawn inputs
    evalRisk, evalThreshold, evalAlert

defectVars == <<variant, file, result, isLoading, calls, windowAlert>>
panelVars == <<panelVariant, equipmentId, maintenanceData, loading, error,
               alertThreshold, effectPending, view, panelAlert, typedFor, fetches>>
evalVars == <<evalRisk, evalThreshold, evalAlert>>
vars == <<defectVars, panelVars, evalVars>>

(***************************************************************************)
(* Bounds of the model.                                                    *)
(***************************************************************************)
\* Most handleSubmit activations suspended at once on one widget.
MaxInFlight == 2
\* How far outside [MinThreshold, MaxThreshold] a typed threshold may lie.
Overshoot == 1
\* The completed fetches per equipment id are counted up to this number.
MaxFetches == 2

(***************************************************************************)
(* Program constants.                                                      *)
(***************************************************************************)
DefaultThreshold == 70
SimulatedRiskScore == 80
MinThreshold == 0
MaxThreshold == 100

(***************************************************************************)
(* Defect-detection widget.                                                *)
(***************************************************************************)
NoFile == "none"                \* file is null (nothing chosen) or undefined
EmptyFile == "empty"            \* a File of zero bytes
Files == {NoFile, EmptyFile, "image"}

NoResult == "null"
DefectDetected == "Defect Detected"
NoDefect == "No Defect"
ErrorResult == "Error detecting defects. Please try again."
SelectImageFirst == "Please select an image first."

\* What the server may send as a body: JSON with defect_detected true, JSON with
\* defect_detected false, JSON without that field (an error description), and a
\* body response.json() cannot turn into an object.
Bodies == {"defect_true", "defect_false", "no_field", "unreadable"}

\* data.defect_detected ? 'Defect Detected' : 'No Defect'
VerdictText(body) == IF body = "defect_true" THEN DefectDetected ELSE NoDefect

\* A handleSubmit activation right after it called fetch.
NewCall(f) == [file |-> f, pc |-> "fetch", ok |-> TRUE, body |-> "pending", stale |-> FALSE]

\* The activation at position i has run to its end.
RemoveAt(s, i) == SubSeq(s, 1, i - 1) \o SubSeq(s, i + 1, Len(s))

\* Activation i has called setResult: every activation submitted before it and
\* still suspended is from now on a superseded one.
MarkStale(s, i) == [j \in DOMAIN s |-> IF j < i THEN [s[j] EXCEPT !.stale = TRUE] ELSE s[j]]

\* The activation at position i called setResult and returned.
Applied(s, i) == RemoveAt(MarkStale(s, i), i)

DefectInit ==
    /\ variant \in {"basic", "guarded"}
    /\ file = NoFile
    /\ result = NoResult
    /\ isLoading = FALSE
    /\ calls = <<>>
    /\ windowAlert = "none"

\* handleFileChange: setFile(e.target.files[0]); files[0] is undefined when the
\* chooser is cancelled.  (The image preview of part_004 is not modelled.)
HandleFileChange(f) ==
    /\ file' = f
    /\ UNCHANGED <<panelVars, evalVars, variant, result, isLoading, calls, windowAlert>>

\* ---- frontend/src/components/DefectDisplay.js

\* handleSubmit up to its first await: the button is always enabled, file is
\* appended whatever it is, and fetch is called.
BasicSubmit ==
    /\ variant = "basic"
    /\ Len(calls) < MaxInFlight
    /\ calls' = Append(calls, NewCall(file))
    /\ UNCHANGED <<panelVars, evalVars, variant, file, result, isLoading, windowAlert>>

\* fetch rejects (transport failure): the activation ends with an unhandled
\* rejection, no state is set.
BasicFetchRejects(i) ==
    /\ variant = "basic"
    /\ i \in DOMAIN calls
    /\ calls[i].pc = "fetch"
    /\ calls' = RemoveAt(calls, i)
    /\ UNCHANGED <<panelVars, evalVars, variant, file, result, isLoading, windowAlert>>

\* fetch resolves with a response of any status: response.ok is not read, and
\* the activation awaits response.json().
BasicFetchResponds(i, ok, body) ==
    /\ variant = "basic"
    /\ i \in DOMAIN calls
    /\ calls[i].pc = "fetch"
    /\ calls' = [calls EXCEPT ![i] = [@ EXCEPT !.pc = "json", !.ok = ok, !.body = body]]
    /\ UNCHANGED <<panelVars, evalVars, variant, file, result, isLoading, windowAlert>>

\* response.json() rejects: unhandled rejection, no state is set.
BasicJsonRejects(i) ==
    /\ variant = "basic"
    /\ i \in DOMAIN calls
    /\ calls[i].pc = "json"
    /\ calls[i].body = "unreadable"
    /\ calls' = RemoveAt(calls, i)
    /\ UNCHANGED <<panelVars, evalVars, variant, file, result, isLoading, windowAlert>>

\* response.json() resolves: setResult(verdict).
BasicJsonResolves(i) ==
    /\ variant = "basic"
    /\ i \in DOMAIN calls
    /\ calls[i].pc = "json"
    /\ calls[i].body # "unreadable"
    /\ result' = VerdictText(calls[i].body)
    /\ calls' = Applied(calls, i)
    /\ UNCHANGED <<panelVars, evalVars, variant, file, isLoading, windowAlert>>

\* ---- unnamed/part_004

\* <button onClick={handleSubmit} disabled={isLoading}>
UploadEnabled == ~isLoading

\* handleSubmit up to its first await.
GuardedSubmit ==
    /\ variant = "guarded"
    /\ UploadEnabled
    /\ Len(calls) < MaxInFlight
    /\ IF file = NoFile
         THEN /\ windowAlert' = SelectImageFirst
              /\ UNCHANGED <<isLoading, calls>>
         ELSE /\ isLoading' = TRUE
              /\ calls' = Append(calls, NewCall(file))
              /\ UNCHANGED windowAlert
    /\ UNCHANGED <<panelVars, evalVars, variant, file, result>>

\* catch: setResult(error text); finally: setIsLoading(false).
GuardedCatch(i) ==
    /\ result' = ErrorResult
    /\ isLoading' = FALSE
    /\ calls' = Applied(calls, i)

\* fetch rejects (transport failure).
GuardedFetchRejects(i) ==
    /\ variant = "guarded"
    /\ i \in DOMAIN calls
    /\ calls[i].pc = "fetch"
    /\ GuardedCatch(i)
    /\ UNCHANGED <<panelVars, evalVars, variant, file, windowAlert>>

\* fetch resolves: a response that is not ok throws, an ok one is awaited for
\* its JSON.
GuardedFetchResponds(i, ok, body) ==
    /\ variant = "guarded"
    /\ i \in DOMAIN calls
    /\ calls[i].pc = "fetch"
    /\ IF ~ok
         THEN GuardedCatch(i)
         ELSE /\ calls' = [calls EXCEPT ![i] = [@ EXCEPT !.pc = "json", !.ok = ok, !.body = body]]
              /\ UNCHANGED <<result, isLoading>>
    /\ UNCHANGED <<panelVars, evalVars, variant, file, windowAlert>>

\* response.json() settles: a rejection goes to catch, a value to setResult;
\* finally: setIsLoading(false).
GuardedJsonSettles(i) ==
    /\ variant = "guarded"
    /\ i \in DOMAIN calls
    /\ calls[i].pc = "json"
    /\ IF calls[i].body = "unreadable"
         THEN GuardedCatch(i)
         ELSE /\ result' = VerdictText(calls[i].body)
              /\ isLoading' = FALSE
              /\ calls' = Applied(calls, i)
    /\ UNCHANGED <<panelVars, evalVars, variant, file, windowAlert>>

NextDefect ==
    \/ \E f \in Files : HandleFileChange(f)
    \/ BasicSubmit
    \/ \E i \in 1..MaxInFlight : BasicFetchRejects(i)
    \/ \E i \in 1..MaxInFlight, ok \in BOOLEAN, body \in Bodies : BasicFetchResponds(i, ok, body)
    \/ \E i \in 1..MaxInFlight : BasicJsonRejects(i)
    \/ \E i \in 1..MaxInFlight : BasicJsonResolves(i)
    \/ GuardedSubmit
    \/ \E i \in 1..MaxInFlight : GuardedFetchRejects(i)
    \/ \E i \in 1..MaxInFlight, ok \in BOOLEAN, body \in Bodies : GuardedFetchResponds(i, ok, body)
    \/ \E i \in 1..MaxInFlight : GuardedJsonSettles(i)

(***************************************************************************)
(* Maintenance panel.                                                      *)
(***************************************************************************)
Equipment == {"E1", "E2"}
Null == [null |-> TRUE]
NoError == "null"
FetchFailed == "Failed to fetch maintenance data"
NoAlert == [text |-> "none"]

\* The simulated API response of part_002.  A date of the history, the ISO text
\* 'yyyy-mm-dd', is written <<yyyy, mm, dd>>.
SimulatedResponse ==
    [nextMaintenanceDate |-> "2025-03-15",
     riskScore |-> SimulatedRiskScore,
     downtime |-> "15 hours",
     lastMaintenanceDate |-> "2024-12-01",
     history |-> << [date |-> <<2024, 1, 1>>, riskScore |-> 30],
                    [date |-> <<2024, 4, 1>>, riskScore |-> 45],
                    [date |-> <<2024, 7, 1>>, riskScore |-> 60],
                    [date |-> <<2024, 10, 1>>, riskScore |-> 75],
                    [date |-> <<2025, 1, 1>>, riskScore |-> 80] >>]

\* The simulated API response of part_003: no history.
SimulatedResponsePlain ==
    [nextMaintenanceDate |-> "2025-03-15",
     riskScore |-> 80,
     downtime |-> "15 hours",
     lastMaintenanceDate |-> "2024-12-01"]

\* The current risk score read from the oldest sample of the history.
CurrentRiskOldestSample(data) == data.history[1].riskScore

\* The current risk score shown: {maintenanceData.riskScore}
CurrentRisk(data) == data.riskScore

\* The most recent sample of the history the chart is given: the last element
\* of maintenanceData.history.
LastSample(data) == data.history[Len(data.history)]

\* One more completed fetch for equipment id e.
Counted(f, e) == [f EXCEPT ![e] = IF @ < MaxFetches THEN @ + 1 ELSE @]

\* The comparison with the boundary included.
AlertRaisedInclusive(riskScore, threshold) == riskScore >= threshold

\* maintenanceData.riskScore > alertThreshold
AlertRaised(riskScore, threshold) == riskScore > threshold

\* The text of the number input is empty (<<>>) or a numeral (<<n>>);
\* Number("") is 0, Number of a numeral is its value.
NumberOf(text) == IF text = <<>> THEN 0 ELSE text[1]

\* The values tried in the threshold input: the ends of the range, the default,
\* the values around the simulated score, and values outside of the range.
TypedNumbers ==
    {MinThreshold, DefaultThreshold, SimulatedRiskScore - 1, SimulatedRiskScore,
     SimulatedRiskScore + 1, MaxThreshold}
    \cup {MinThreshold - k : k \in 1..Overshoot}
    \cup {MaxThreshold + k : k \in 1..Overshoot}
TypedTexts == {<<>>} \cup {<<n>> : n \in TypedNumbers}

\* The component's return value: the loading line, the error line, or the
\* statistics (reading a field of a null maintenanceData throws).
Rendered(pv, eq, data, ld, err, thr) ==
    IF ld THEN [screen |-> "loading"]
    ELSE IF err # NoError THEN [screen |-> "error", message |-> err]
    ELSE IF data = Null THEN [screen |-> "crash"]
    ELSE IF pv = "threshold"
      THEN [screen |-> "stats", equipmentId |-> eq, riskScore |-> CurrentRisk(data),
            history |-> data.history, thresholdInput |-> thr,
            alert |-> AlertRaised(data.riskScore, thr)]
      ELSE [screen |-> "stats", equipmentId |-> eq, riskScore |-> data.riskScore]

\* The state after the first render: the useState initial values, the effect
\* scheduled.
PanelInit ==
    /\ panelVariant \in {"threshold", "plain"}
    /\ equipmentId \in Equipment
    /\ maintenanceData = Null
    /\ loading = TRUE
    /\ error = NoError
    /\ alertThreshold = DefaultThreshold
    /\ effectPending = TRUE
    /\ view = Rendered(panelVariant, equipmentId, Null, TRUE, NoError, DefaultThreshold)
    /\ panelAlert = NoAlert
    /\ typedFor = [e \in Equipment |-> DefaultThreshold]
    /\ fetches = [e \in Equipment |-> 0]

\* The effect ends the loading state without storing a response.
FetchMaintenanceDataStoresNothing ==
    /\ panelVariant = "threshold"
    /\ effectPending
    /\ loading' = FALSE
    /\ effectPending' = FALSE
    /\ view' = Rendered(panelVariant, equipmentId, maintenanceData, loading', error, alertThreshold)
    /\ fetches' = Counted(fetches, equipmentId)
    /\ UNCHANGED <<defectVars, evalVars, panelVariant, equipmentId, maintenanceData, error,
                   alertThreshold, panelAlert, typedFor>>

\* useEffect of part_002: fetchMaintenanceData runs to its end without awaiting,
\* then the component renders again.  Nothing in its try block can throw (an
\* object literal and two state setters), so its catch, which would set error to
\* FetchFailed, is never entered and has no action here.
FetchMaintenanceData ==
    /\ panelVariant = "threshold"
    /\ effectPending
    /\ maintenanceData' = SimulatedResponse
    /\ loading' = FALSE
    /\ effectPending' = FALSE
    /\ view' = Rendered(panelVariant, equipmentId, maintenanceData', loading', error, alertThreshold)
    /\ fetches' = Counted(fetches, equipmentId)
    /\ UNCHANGED <<defectVars, evalVars, panelVariant, equipmentId, error, alertThreshold, panelAlert, typedFor>>

\* useEffect of part_003.
FetchMaintenanceDataPlain ==
    /\ panelVariant = "plain"
    /\ effectPending
    /\ maintenanceData' = SimulatedResponsePlain
    /\ loading' = FALSE
    /\ effectPending' = FALSE
    /\ view' = Rendered(panelVariant, equipmentId, maintenanceData', loading', error, alertThreshold)
    /\ fetches' = Counted(fetches, equipmentId)
    /\ UNCHANGED <<defectVars, evalVars, panelVariant, equipmentId, error, alertThreshold, panelAlert, typedFor>>

\* The parent passes another equipmentId: the component renders with the state
\* it has, and the effect, which depends on [equipmentId], is scheduled.  React
\* runs the effect of one commit before it renders again, hence ~effectPending.
ChangeEquipment(e) ==
    /\ ~effectPending
    /\ e # equipmentId
    /\ equipmentId' = e
    /\ effectPending' = TRUE
    /\ view' = Rendered(panelVariant, e, maintenanceData, loading, error, alertThreshold)
    /\ UNCHANGED <<defectVars, evalVars, panelVariant, maintenanceData, loading, error, alertThreshold, panelAlert, typedFor, fetches>>

\* The threshold is stored but what is shown is not evaluated again.
SetAlertThresholdStaleView(text) ==
    /\ panelVariant = "threshold"
    /\ view.screen = "stats"
    /\ alertThreshold' = NumberOf(text)
    /\ typedFor' = [typedFor EXCEPT ![equipmentId] = NumberOf(text)]
    /\ UNCHANGED <<defectVars, evalVars, panelVariant, equipmentId, maintenanceData, loading,
                   error, effectPending, panelAlert, view, fetches>>

\* onChange of the threshold input: setAlertThreshold(Number(e.target.value)),
\* then the component renders again.
SetAlertThreshold(text) ==
    /\ panelVariant = "threshold"
    /\ view.screen = "stats"
    /\ alertThreshold' = NumberOf(text)
    /\ typedFor' = [typedFor EXCEPT ![equipmentId] = NumberOf(text)]
    /\ view' = Rendered(panelVariant, equipmentId, maintenanceData, loading, error, alertThreshold')
    /\ UNCHANGED <<defectVars, evalVars, panelVariant, equipmentId, maintenanceData, loading, error, effectPending, panelAlert, fetches>>

\* Save Threshold: alert(`Alert threshold set to ${alertThreshold}.`)
SaveThreshold ==
    /\ panelVariant = "threshold"
    /\ view.screen = "stats"
    /\ panelAlert' = [text |-> "Alert threshold set to", value |-> alertThreshold]
    /\ UNCHANGED <<defectVars, evalVars, panelVariant, equipmentId, maintenanceData, loading, error,
                   alertThreshold, effectPending, view, typedFor, fetches>>

\* Update Maintenance Prediction: alert('Maintenance prediction updated.')
UpdatePrediction ==
    /\ view.screen = "stats"
    /\ panelAlert' = [text |-> "Maintenance prediction updated."]
    /\ UNCHANGED <<defectVars, evalVars, panelVariant, equipmentId, maintenanceData, loading, error,
                   alertThreshold, effectPending, view, typedFor, fetches>>

NextPanel ==
    \/ FetchMaintenanceData
    \/ FetchMaintenanceDataPlain
    \/ \E e \in Equipment : ChangeEquipment(e)
    \/ \E text \in TypedTexts : SetAlertThreshold(text)
    \/ SaveThreshold
    \/ UpdatePrediction

(***************************************************************************)
(* The alert comparison on drawn inputs.                                   *)
(***************************************************************************)
Scores == MinThreshold..MaxThreshold

EvalInit ==
    /\ evalRisk \in Scores
    /\ evalThreshold \in Scores
    /\ evalAlert = "unset"

Evaluate ==
    /\ evalAlert = "unset"
    /\ evalAlert' = IF AlertRaised(evalRisk, evalThreshold) THEN "alert" ELSE "none"
    /\ UNCHANGED <<defectVars, panelVars, evalRisk, evalThreshold>>

(***************************************************************************)
(* Specifications: one component is explored, the others stay as built.    *)
(***************************************************************************)
DefectAsBuilt == DefectInit /\ variant = "guarded"
PanelAsBuilt == PanelInit /\ panelVariant = "threshold" /\ equipmentId = "E1"
EvalAsBuilt == evalRisk = MinThreshold /\ evalThreshold = MinThreshold /\ evalAlert = "unset"

InitDefect == DefectInit /\ PanelAsBuilt /\ EvalAsBuilt
InitPanel == PanelInit /\ DefectAsBuilt /\ EvalAsBuilt
InitEvaluate == EvalInit /\ DefectAsBuilt /\ PanelAsBuilt

SpecDefect == InitDefect /\ [][NextDefect]_vars
SpecPanel == InitPanel /\ [][NextPanel]_vars
NextEvaluate == Evaluate

SpecEvaluate == InitEvaluate /\ [][NextEvaluate]_vars

(***************************************************************************)
(* Properties of the defect-detection widget (checked under SpecDefect).   *)
(***************************************************************************)
Verdicts == {DefectDetected, NoDefect}

\* In this step the activation at position i runs to its end.
Finishes(i) ==
    /\ i \in DOMAIN calls
    /\ Len(calls') = Len(calls) - 1
    /\ calls' \in {RemoveAt(calls, i), Applied(calls, i)}

\* In this step the activation at position i ends because its gateway call
\* failed: fetch rejected, the response was refused, or its body was unreadable.
Rejected(i) ==
    /\ Finishes(i)
    /\ calls[i].pc = "fetch" \/ calls[i].body = "unreadable"

\* C1: the response of a request that was overtaken (a request submitted after
\* it has already set the result) causes no state transition when it arrives.
C1_StaleResponseDropped ==
    [][\A i \in 1..MaxInFlight :
          (Finishes(i) /\ calls[i].stale) => UNCHANGED <<result, isLoading>>]_vars

\* C2: at most one gateway call per widget is in flight in every reachable state.
C2_SingleFlight == Len(calls) <= 1

\* C5: a request whose response was not 2xx ends with the error shown, never
\* with a verdict.
C5_NonOkEndsFailed ==
    [][\A i \in 1..MaxInFlight :
          /\ (Finishes(i) /\ calls[i].pc = "json" /\ ~calls[i].ok) => result' = ErrorResult
          /\ \A body \in Bodies :
                GuardedFetchResponds(i, FALSE, body) => result' = ErrorResult]_vars

\* C6: when the gateway call of a request fails, the step that ends the request
\* leaves the widget showing the failure and no longer pending.
C6_RejectionObservable ==
    [][\A i \in 1..MaxInFlight :
          Rejected(i) => (result' = ErrorResult /\ ~isLoading')]_vars

\* C7: no request is issued with no image or with an empty image.
C7_NoCallWithoutImage ==
    \A i \in DOMAIN calls : calls[i].file \notin {NoFile, EmptyFile}

\* C8 (defect widget): while a request is pending, no result or error of an
\* earlier request is held.
C8_PendingHoldsNoResult == (calls # <<>>) => (result = NoResult)

\* What the version with the loading flag (part_004) does guarantee.

\* One request at a time, and the flag is up exactly while it is in flight.
GuardedSingleFlight ==
    variant = "guarded" => (Len(calls) <= 1 /\ (isLoading <=> calls # <<>>))

\* A failed gateway call ends with the error shown and the flag down.
GuardedRejectionShown ==
    [][variant = "guarded" =>
          \A i \in 1..MaxInFlight :
              Rejected(i) => (result' = ErrorResult /\ ~isLoading')]_vars

\* A response that is not ok never reaches response.json().
GuardedNonOkNeverRead ==
    variant = "guarded" => \A i \in DOMAIN calls : calls[i].ok

\* No request is issued while no file is chosen.
GuardedNoCallWithoutFile ==
    variant = "guarded" => \A i \in DOMAIN calls : calls[i].file # NoFile

(***************************************************************************)
(* Properties of the maintenance panel (checked under SpecPanel).          *)
(***************************************************************************)
ThresholdShown == panelVariant = "threshold" /\ view.screen = "stats"

\* C4: the stored threshold is within [0,100] in every reachable state.
C4_ThresholdInRange == alertThreshold \in MinThreshold..MaxThreshold

\* C8 (maintenance panel): while the fetch for a new equipment id is pending,
\* the panel shows no data of the earlier fetch.
C8_PanelPendingShowsNoData == effectPending => view.screen = "loading"

\* C9: whenever the statistics are shown, the alert shown is exactly
\* (current risk score > current threshold), whatever thresholds were typed
\* and whatever fetches ran.
C9_AlertMatchesState ==
    ThresholdShown =>
        /\ view.riskScore = maintenanceData.riskScore
        /\ view.alert <=> (maintenanceData.riskScore > alertThreshold)

\* C9 witness: after fetches for both equipment ids and different thresholds
\* typed under each, the threshold equals the score and no alert is shown.
C9_Witness ==
    /\ ThresholdShown
    /\ ~effectPending
    /\ typedFor["E1"] # typedFor["E2"]
    /\ alertThreshold = SimulatedRiskScore
    /\ view.alert = FALSE

\* C10: the equipment shown is evaluated against its own threshold: the value
\* last typed while it was shown, the default until then.
C10_OwnThreshold ==
    ThresholdShown => view.thresholdInput = typedFor[equipmentId]

Precedes(a, b) ==
    \/ a[1] < b[1]
    \/ a[1] = b[1] /\ a[2] < b[2]
    \/ a[1] = b[1] /\ a[2] = b[2] /\ a[3] < b[3]

\* The dates of the history held never go back from one sample to the next.
\* (The component has no operation that adds a sample to a history and none
\* that refuses one: the history is whatever the response holds.)
HistoryChronological ==
    (panelVariant = "threshold" /\ maintenanceData # Null) =>
        \A i \in 1..(Len(maintenanceData.history) - 1) :
            ~Precedes(maintenanceData.history[i + 1].date, maintenanceData.history[i].date)

\* The response the mounted version of the panel stores.
ResponseOf(pv) == IF pv = "threshold" THEN SimulatedResponse ELSE SimulatedResponsePlain

\* C13: the panel never renders data it does not have: when loading is false
\* and error is null, maintenanceData is not null (so the statistics are never
\* rendered from null); and once a fetch has completed, loading is false and
\* exactly one of error set, maintenanceData set holds, the data being the
\* response of the fetch that completed last.
C13_RendersOnlyHeldData ==
    /\ (~loading /\ error = NoError) => maintenanceData # Null
    /\ view.screen # "crash"
    /\ view.screen = "stats" => view.riskScore = maintenanceData.riskScore
    /\ (\E e \in Equipment : fetches[e] >= 1) =>
          /\ ~loading
          /\ (error # NoError) # (maintenanceData # Null)
    /\ (~effectPending /\ error = NoError) => maintenanceData = ResponseOf(panelVariant)

\* C13 witness: the version without the threshold shows the statistics after
\* the fetch for a second equipment id has completed.
C13_Witness ==
    /\ panelVariant = "plain"
    /\ view.screen = "stats"
    /\ ~effectPending
    /\ ~loading /\ error = NoError /\ maintenanceData # Null
    /\ \A e \in Equipment : fetches[e] >= 1

(***************************************************************************)
(* Properties of the alert comparison (checked under SpecEvaluate).        *)
(***************************************************************************)
\* C3: for every risk score r and threshold t in 0..100 the alert is raised
\* exactly when r > t: r = t raises none, r = t + 1 raises one.
C3_StrictBoundary ==
    evalAlert # "unset" =>
        /\ (evalAlert = "alert") <=> (evalRisk > evalThreshold)
        /\ evalRisk = evalThreshold => evalAlert = "none"
        /\ evalRisk = evalThreshold + 1 => evalAlert = "alert"

\* C3 witness: a score equal to the threshold has been evaluated.
C3_Witness == evalAlert # "unset" /\ evalRisk = evalThreshold /\ evalRisk = DefaultThreshold

====
